---- MODULE Spec2Model ----
(***************************************************************************)
(* Model of scripts/update_subtrees.py: the batch run that reconciles      *)
(* every registry entry with its upstream through git subtree and then     *)
(* publishes the changed mirrors on an update branch.                      *)
(*                                                                         *)
(* The git repository is modelled by the trees of its branches, the index, *)
(* the working tree and the remotes; each tree maps a mirror prefix to the *)
(* content stored under it.  Revisions are naturals (0 is the empty        *)
(* string), paths are sequences of segments, names sequences of chars.     *)
(***************************************************************************)
EXTENDS Integers, Sequences, FiniteSets, TLC

\* ---------------------------------------------------------------- bounds
MaxEntries == 2      \* longest registry
MaxRev == 2          \* upstream revisions are 1..MaxRev
MaxRuns == 2         \* runs of main on the same clone
TicksPerDay == 2     \* clock ticks in one UTC day
MaxFaults == 2       \* failures of the environment (network, disk, API) in one behaviour
MaxStore == 3        \* longest readme_forks.json and forks.yaml
MaxCmds == 2         \* registry tool commands run one after the other
MaxForks == 2        \* longest forks list given to sync_forks.py

\* ------------------------------------------------------- registry inputs
Absent == "<absent>"

RawFoo == [name |-> <<"F", "o", "o">>, upstream |-> "o/foo", default_branch |-> Absent,
           migrate_to |-> <<"", "OurITRes", "all_forked_repositories", "foo">>]
RawBar == [name |-> <<"b", ".", "r">>, upstream |-> "o/bar", default_branch |-> "main",
           migrate_to |-> <<"", "vendor", "bar">>]
RawFoo2 == [name |-> <<"f", "o", "o">>, upstream |-> "o/foo2", default_branch |-> Absent,
            migrate_to |-> <<"", "OurITRes", "all_forked_repositories", "foo">>]
RawNoPath == [name |-> <<"n", "o">>, upstream |-> "o/no", default_branch |-> Absent,
              migrate_to |-> <<"">>]

RawEntries == {RawFoo, RawBar, RawFoo2, RawNoPath}

Injective(f) == \A i, j \in DOMAIN f : f[i] = f[j] => i = j
Registries == UNION {{f \in [1..n -> RawEntries] : Injective(f)} : n \in 1..MaxEntries}

Repos == {r.upstream : r \in RawEntries}

\* upstream repositories whose tree holds a conventional license file
ReposWithLicense == {"o/foo", "o/foo2"}

\* ------------------------------------------------------- pure functions
RECURSIVE FilterNonEmpty(_)
FilterNonEmpty(s) ==
  IF s = <<>> THEN <<>>
  ELSE IF Head(s) = "" THEN FilterNonEmpty(Tail(s))
       ELSE <<Head(s)>> \o FilterNonEmpty(Tail(s))

\* parts.index(x): 0 stands for ValueError
IndexOf(s, x) ==
  IF \E i \in 1..Len(s) : s[i] = x
  THEN CHOOSE i \in 1..Len(s) : s[i] = x /\ \A j \in 1..(i - 1) : s[j] # x
  ELSE 0

\* ForkEntry.prefix before the emptiness test
prefix_parts(migrate_to) ==
  LET parts == FilterNonEmpty(migrate_to)
      base_index == IndexOf(parts, "all_forked_repositories")
  IN IF base_index = 0 THEN parts ELSE SubSeq(parts, base_index + 1, Len(parts))

\* ForkEntry.prefix raises ValueError
PrefixRaises(e) == prefix_parts(e.migrate_to) = <<>>

prefix(e) == prefix_parts(e.migrate_to)

upstream_url(e) == <<"https://github.com/", e.upstream, ".git">>

\* the repository a remote URL leads to
RepoOf(url) == url[2]

Lower(c) == CASE c = "F" -> "f" [] OTHER -> c

IsAlnum(c) == c \in {"f", "o", "b", "r", "n"}

sanitize_remote_name(name) ==
  <<"upstream-">> \o [i \in 1..Len(name) |->
      IF IsAlnum(Lower(name[i])) \/ Lower(name[i]) \in {"-", "_"} THEN Lower(name[i]) ELSE "-"]

load_entry(raw) ==
  [name |-> raw.name, upstream |-> raw.upstream,
   default_branch |-> IF raw.default_branch = Absent THEN "master" ELSE raw.default_branch,
   migrate_to |-> raw.migrate_to]

Prefixes == {prefix(r) : r \in {x \in RawEntries : ~PrefixRaises(x)}}
RemoteNames == {sanitize_remote_name(r.name) : r \in RawEntries}
BranchNames == {load_entry(r).default_branch : r \in RawEntries}
Refs == RemoteNames \X BranchNames

\* ------------------------------------------------------------ git trees
NoMeta == [upstream |-> <<>>, branch |-> "", commit |-> 0, at |-> -1, note |-> ""]
Blank == [repo |-> "", rev |-> 0, srclic |-> FALSE, meta |-> NoMeta, lic |-> FALSE, markers |-> FALSE]

BaseBranch == [kind |-> "main", day |-> 0]
Day(t) == t \div TicksPerDay
\* line 240: auto/subtree-sync-<UTC date>
UpdateBranchName(t) == [kind |-> "auto/subtree-sync", day |-> Day(t)]

NoteSynced == "License synced to UPSTREAM_LICENSE"
NoteNone == "No license file found in upstream; UPSTREAM_LICENSE not created"

\* ------------------------------------------------- registry tool inputs
\* JSON null, Python None
Null == "<null>"
NoStore == [exists |-> FALSE, data |-> <<>>]
NoTool == ""

\* subtree_path values as add --subtree and scan store them; <<>> is None
NoPath == <<>>
SubtreePaths == {NoPath, <<"a">>, <<"a", "/", "b">>, <<"a", "/">>, <<"a", "b">>,
                 <<"a", "/", "b", "/", "c">>, <<"f", "o", "o">>}

\* owner/name strings (source, upstream) are the sequence of their parts, <<>>
\* is None; notes is the sequence of the pieces of its text
NoName == <<>>

\* an entry of readme_forks.json (lines 117-135), with a field the tools do not know
StoreEntry(i, path) ==
  LET name == <<"1", "2", "3", "4", "5", "6", "7", "8", "9">>[i] IN
  [source |-> <<"OurITRes", name>>, owner |-> "OurITRes", name |-> name,
   upstream |-> <<"o", name>>, upstream_license_name |-> Null, upstream_license_url |-> Null,
   subtree_path |-> path, subtree_exists |-> path # NoPath,
   subtree_license_file |-> Null, subtree_license_verified |-> FALSE, verified |-> FALSE,
   notes |-> <<>>, added_at |-> 0, x_team |-> "infra"]

\* an entry without upstream that somebody verified and annotated by hand
HandEntry(i, path) ==
  [StoreEntry(i, path) EXCEPT !.upstream = NoName, !.verified = TRUE, !.notes = <<"checked by hand">>]

ReadmeStores ==
  {NoStore} \cup
  UNION {{[exists |-> TRUE, data |-> [i \in 1..n |-> StoreEntry(i, f[i])]] :
            f \in [1..n -> SubtreePaths]} : n \in 0..MaxStore}

\* the readme_forks.json of the clone update_subtrees.py runs in
MirrorStore == [exists |-> TRUE, data |-> <<StoreEntry(1, <<"f", "o", "o">>)>>]

\* entries of forks.yaml: one with a field the generator does not know, one with
\* every field it knows, one with a name only
YamlFoo == [name |-> "Foo", upstream |-> "o/foo", migrate_to |-> "/OurITRes/all_forked_repositories/foo",
            x_team |-> "infra"]
YamlBar == [source |-> "github", owner |-> "OurITRes", name |-> "b.r", default_branch |-> "main",
            upstream |-> "o/bar", migrate_to |-> "/vendor/bar", url |-> "https://github.com/OurITRes/bar"]
YamlBare == [name |-> "no"]
YamlEntries == {YamlFoo, YamlBar, YamlBare}
YamlLists == UNION {[1..n -> YamlEntries] : n \in 0..MaxStore}

\* ---------------------------------------------------------------- state
VARIABLES
  registry,        \* forks.json: the raw entries
  storeExists,     \* whether forks.json can be read
  token,           \* whether GITHUB_TOKEN is set
  now,             \* the UTC clock
  faults,          \* failures the environment may still inject
  run,             \* number of the current run of main
  pc,              \* position of main
  idx,             \* position of the for loop in entries
  entries,         \* load_entries()
  updates,         \* main's updates list
  update_branch,   \* main's update_branch
  remote,          \* process_entry locals
  prefix_path,
  upstream_commit,
  subtree_exists,
  license_note,
  ret,             \* main's return value, -1 while it has none
  remotes,         \* git remotes: name -> url, <<>> when not configured
  tracking,        \* remote-tracking refs: <<remote, branch>> -> revision, 0 when absent
  cur,             \* the checked-out branch
  branchTree,      \* local branches: name -> tree of its tip commit
  originTree,      \* tree of origin/<default branch>
  pushed,          \* branches pushed to origin: name -> tree
  index,           \* the index
  wt,              \* the working tree
  unmerged,        \* prefixes with unmerged paths (a merge in progress)
  upstreamTip,     \* upstream repositories: repo -> tip revision
  log,             \* mutating git commands and API calls of the current run
  res,             \* per entry of the current run: what happened to it
  prevRes,         \* res of the previous run
  snap,            \* working tree, index and unmerged paths when the current entry started
  start,           \* branches and checkout when the current run started
  ncmd,            \* registry tool commands run so far
  readme_forks,    \* readme_forks.json: whether it exists, and its entries
  forks_yaml,      \* the "forks" list of the forks.yaml given to generate_forks_json.py
  forks_json,      \* the list generate_forks_json.py wrote
  last_cmd,        \* the registry tool that ran last
  before,          \* readme_forks.json when that tool started
  forks,           \* sync_forks.py: the "forks" list of forks.yaml
  pat,             \* sync_forks.py: FORKS_MANAGER_PAT is set
  sync_pc,         \* sync_forks.py: where main / perform_sync stands
  fork_i,          \* sync_forks.py: index of the current entry
  failed,          \* the merge or rebase of the current entry failed, or its strategy is unknown
  merged,          \* the local default branch of the current clone holds the upstream commits
  trail,           \* the commands run for the current entry, with their outcome
  pushes,          \* every push that succeeded: entry, ref and whether it carries the upstream commits
  results          \* per finished entry: strategy, create_pr, failed, trail and outcome

vars == <<registry, storeExists, token, now, faults, run, pc, idx, entries, updates, update_branch,
          remote, prefix_path, upstream_commit, subtree_exists, license_note, ret,
          remotes, tracking, cur, branchTree, originTree, pushed, index, wt, unmerged,
          upstreamTip, log, res, prevRes, snap, start,
          ncmd, readme_forks, forks_yaml, forks_json, last_cmd, before,
          forks, pat, sync_pc, fork_i, failed, merged, trail, pushes, results>>

\* the files of the registry tools, which update_subtrees.py never opens
stores == <<ncmd, readme_forks, forks_yaml, forks_json, last_cmd, before>>
\* the state of sync_forks.py, which works in clones of its own
sync == <<forks, pat, sync_pc, fork_i, failed, merged, trail, pushes, results>>
inputs == <<registry, storeExists, token, stores, sync>>
clock == <<now, run>>
locals == <<remote, prefix_path, upstream_commit, subtree_exists, license_note>>
gitrefs == <<cur, branchTree, originTree, pushed>>
gittree == <<index, wt, unmerged>>
ghost == <<prevRes, snap, start>>

NoUrl == <<>>
HeadTree == branchTree[cur]
Pending == [st |-> "pending", changed |-> FALSE, tip |-> 0, wrote |-> NoMeta, act |-> "none"]
Snapshot == [wt |-> wt, index |-> index, unmerged |-> unmerged]
Cmd(op) == [op |-> op, idx |-> idx]

\* the tree of origin's default branch: the mirror foo was synchronized from
\* o/foo at revision 1 by an earlier run whose update branch was merged, the
\* mirror vendor/bar was never imported
SyncedFoo ==
  [repo |-> "o/foo", rev |-> 1, srclic |-> TRUE, lic |-> TRUE, markers |-> FALSE,
   meta |-> [upstream |-> <<"https://github.com/", "o/foo">>, branch |-> "master",
             commit |-> 1, at |-> 0, note |-> NoteSynced]]
InitialTree == [p \in Prefixes |-> IF p = <<"foo">> THEN SyncedFoo ELSE Blank]

InitWith(budget) ==
  /\ registry \in Registries
  /\ faults = budget
  /\ storeExists \in BOOLEAN
  /\ token \in BOOLEAN
  /\ now = TicksPerDay
  /\ run = 1
  /\ pc = "start"
  /\ idx = 0
  /\ entries = <<>>
  /\ updates = <<>>
  /\ update_branch = BaseBranch
  /\ remote = <<>>
  /\ prefix_path = <<>>
  /\ upstream_commit = 0
  /\ subtree_exists = FALSE
  /\ license_note = ""
  /\ ret = -1
  /\ remotes = [r \in RemoteNames |-> NoUrl]
  /\ tracking = [r \in Refs |-> 0]
  /\ cur = BaseBranch
  /\ originTree = InitialTree
  /\ branchTree = (BaseBranch :> originTree)
  /\ pushed = <<>>
  /\ index = originTree
  /\ wt = originTree
  /\ unmerged = {}
  /\ upstreamTip = [r \in Repos |-> 1]
  /\ log = <<>>
  /\ res = <<>>
  /\ prevRes = <<>>
  /\ snap = [wt |-> originTree, index |-> originTree, unmerged |-> {}]
  /\ start = [branches |-> {BaseBranch}, cur |-> BaseBranch]

\* update_subtrees.py runs in a clone whose readme_forks.json lists the mirror foo
\* sync_forks.py is not running
SyncAtRest ==
  /\ forks = <<>>
  /\ pat = TRUE
  /\ sync_pc = "idle"
  /\ fork_i = 0
  /\ failed = FALSE
  /\ merged = FALSE
  /\ trail = <<>>
  /\ pushes = <<>>
  /\ results = <<>>

StoresAtRest(store) ==
  /\ SyncAtRest
  /\ ncmd = 0
  /\ readme_forks = store
  /\ forks_yaml = <<>>
  /\ forks_json = <<>>
  /\ last_cmd = NoTool
  /\ before = store

Init == InitWith(MaxFaults) /\ StoresAtRest(MirrorStore)

\* a failure injected by the environment, and none
Fault == faults > 0 /\ faults' = faults - 1
NoFault == faults' = faults

\* ------------------------------------------------------------ git model
Exists(tree, p) == tree[p] # Blank

\* git refuses to switch branches over unmerged paths or over local changes
\* to content that differs between the two commits
CheckoutBlocked ==
  \/ unmerged # {}
  \/ \E p \in Prefixes : (wt[p] # HeadTree[p] \/ index[p] # HeadTree[p]) /\ HeadTree[p] # originTree[p]

\* git checkout -B <branch> origin/<base>: the working tree keeps local changes
CheckoutTree == [p \in Prefixes |-> IF wt[p] = HeadTree[p] THEN originTree[p] ELSE wt[p]]

\* git status --porcelain -- prefix prints something
PorcelainNonEmpty(p) == wt[p] # HeadTree[p] \/ index[p] # HeadTree[p] \/ p \in unmerged

\* git subtree's ensure_clean: tracked files differ from HEAD, or the index does
TrackedDirty(p) ==
  \/ index[p] # HeadTree[p]
  \/ p \in unmerged
  \/ wt[p].markers # HeadTree[p].markers
  \/ wt[p].rev # HeadTree[p].rev
  \/ (HeadTree[p].meta # NoMeta /\ wt[p].meta # HeadTree[p].meta)
  \/ (HeadTree[p].lic /\ ~wt[p].lic)
EnsureCleanFails == \E p \in Prefixes : TrackedDirty(p)

\* the content git subtree add / pull --squash leaves under the prefix
Imported(old, repo, rev) ==
  [old EXCEPT !.repo = repo, !.rev = rev, !.srclic = repo \in ReposWithLicense]

\* --------------------------------------------------------------- main()
\* lines 235-241: token, repo, updates, branch_base, update_branch, git checkout -B
\* git checkout of a branch that exists: the branch is left where it was
checkout_existing(branch) == IF branch \in DOMAIN branchTree THEN branchTree[branch] ELSE originTree

\* line 241: the commit git checkout -B <branch> origin/<base> puts the branch at
checkout_B(branch) == originTree

main_checkout ==
  /\ pc = "start"
  /\ updates' = <<>>
  /\ update_branch' = UpdateBranchName(now)
  /\ start' = [branches |-> DOMAIN branchTree, cur |-> cur]
  /\ \E ok \in BOOLEAN :
       IF ok /\ ~CheckoutBlocked
       THEN /\ branchTree' = (update_branch' :> checkout_B(update_branch')) @@ branchTree
            /\ cur' = update_branch'
            /\ index' = [p \in Prefixes |-> IF index[p] = HeadTree[p] THEN originTree[p] ELSE index[p]]
            /\ wt' = CheckoutTree
            /\ log' = Append(log, [op |-> "checkout -B", idx |-> 0])
            /\ pc' = "load"
            /\ NoFault
            /\ UNCHANGED unmerged
       ELSE /\ pc' = "raised"
            /\ IF CheckoutBlocked THEN NoFault ELSE Fault
            /\ UNCHANGED <<branchTree, cur, index, wt, unmerged, log>>
  /\ UNCHANGED <<inputs, clock, idx, entries, locals, ret, remotes, tracking, originTree,
                 pushed, upstreamTip, res, prevRes, snap>>

\* lines 70-82, called at line 243
load_entries ==
  /\ pc = "load"
  /\ IF storeExists
     THEN /\ entries' = [i \in 1..Len(registry) |-> load_entry(registry[i])]
          /\ res' = [i \in 1..Len(registry) |-> Pending]
          /\ idx' = 1
          /\ pc' = "for"
     ELSE /\ pc' = "raised"
          /\ UNCHANGED <<entries, res, idx>>
  /\ UNCHANGED <<inputs, clock, faults, updates, update_branch, locals, ret, remotes, tracking,
                 gitrefs, gittree, upstreamTip, log, ghost>>

\* lines 243-245: the next entry, the print that evaluates entry.prefix, try
main_for ==
  /\ pc = "for"
  /\ IF idx > Len(entries)
     THEN /\ pc' = "publish"
          /\ UNCHANGED snap
     ELSE IF PrefixRaises(entries[idx])
          THEN /\ pc' = "raised"
               /\ UNCHANGED snap
          ELSE /\ pc' = "process_entry"
               /\ snap' = Snapshot
  /\ UNCHANGED <<inputs, clock, faults, idx, entries, updates, update_branch, locals, ret, remotes,
                 tracking, gitrefs, gittree, upstreamTip, log, res, prevRes, start>>

Raise_falls_through(status) ==
  /\ pc' = "copy_license"
  /\ res' = [res EXCEPT ![idx].st = status]

\* an exception of process_entry reaches the except clause of line 249
Raise(status) ==
  /\ pc' = "except"
  /\ res' = [res EXCEPT ![idx].st = status]

\* lines 216-217: remote and prefix
process_entry_begin ==
  /\ pc = "process_entry"
  /\ IF PrefixRaises(entries[idx])
     THEN /\ Raise("error")
          /\ UNCHANGED <<remote, prefix_path>>
     ELSE /\ remote' = sanitize_remote_name(entries[idx].name)
          /\ prefix_path' = prefix(entries[idx])
          /\ pc' = "ensure_remote"
          /\ UNCHANGED res
  /\ UNCHANGED <<inputs, clock, faults, idx, entries, updates, update_branch, upstream_commit,
                 subtree_exists, license_note, ret, remotes, tracking, gitrefs, gittree,
                 upstreamTip, log, ghost>>

ensure_remote_cmds_rebind(current, url, ok) ==
  IF current = NoUrl THEN <<"remote add">> ELSE <<"remote set-url">>

\* lines 94-98: the mutating commands ensure_remote issues; a failed set-url is
\* caught by the except clause, whose remote add fails in turn because the
\* remote exists
ensure_remote_cmds(current, url, ok) ==
  IF current = url THEN <<>>
  ELSE IF current = NoUrl THEN <<"remote add">>
  ELSE IF ok THEN <<"remote set-url">>
  ELSE <<"remote set-url", "remote add">>

\* lines 94-98 with a remote that exists left as it is
bound_url_keeps(current, url) == IF current = NoUrl THEN url ELSE current

\* lines 94-98: the URL the remote has once ensure_remote returned
bound_url(current, url) == url

\* lines 92-98, called at line 218
ensure_remote ==
  /\ pc = "ensure_remote"
  /\ LET url == upstream_url(entries[idx])
         current == remotes[remote]
     IN \E ok \in IF current = url THEN {TRUE} ELSE BOOLEAN :
          LET cmds == ensure_remote_cmds(current, url, ok)
          IN /\ log' = log \o [k \in DOMAIN cmds |-> Cmd(cmds[k])]
             /\ IF ok
                THEN /\ remotes' = [remotes EXCEPT ![remote] = bound_url(current, url)]
                     /\ pc' = "fetch_remote"
                     /\ NoFault
                     /\ UNCHANGED res
                ELSE /\ Raise("error")
                     /\ Fault
                     /\ UNCHANGED remotes
  /\ UNCHANGED <<inputs, clock, idx, entries, updates, update_branch, locals, ret, tracking,
                 gitrefs, gittree, upstreamTip, ghost>>

\* lines 101-107, called at line 219
fetch_remote ==
  /\ pc = "fetch_remote"
  /\ log' = Append(log, Cmd("fetch"))
  /\ \E ok \in BOOLEAN :
       IF ok
       THEN LET tip == upstreamTip[RepoOf(remotes[remote])]
            IN /\ tracking' = [tracking EXCEPT ![<<remote, entries[idx].default_branch>>] = tip]
               /\ upstream_commit' = tip
               /\ res' = [res EXCEPT ![idx].tip = tip]
               /\ pc' = "subtree_action"
               /\ NoFault
       ELSE /\ Raise("error")
            /\ Fault
            /\ UNCHANGED <<tracking, upstream_commit>>
  /\ UNCHANGED <<inputs, clock, idx, entries, updates, update_branch, remote, prefix_path,
                 subtree_exists, license_note, ret, remotes, gitrefs, gittree, upstreamTip,
                 ghost>>

subtree_cmd_stale(exists) == "pull"

\* line 120: the git subtree subcommand
subtree_cmd(exists) == IF exists THEN "pull" ELSE "add"

\* what git subtree <cmd> --prefix p remote branch --squash can end in:
\* add needs a missing prefix, pull an existing one, both a clean tree;
\* a pull of new upstream content merges cleanly or conflicts
SubtreeRefused(cmd, p) == EnsureCleanFails \/ (cmd = "add") = Exists(wt, p)

SubtreeOutcomes(cmd, p, repo, tip) ==
  IF SubtreeRefused(cmd, p) THEN {"fail"}
  ELSE IF cmd = "add" THEN {"ok", "fail"}
  ELSE IF HeadTree[p].repo = repo /\ HeadTree[p].rev = tip THEN {"ok", "fail"}
  ELSE {"ok", "conflict", "fail"}

\* lines 221-224 and 119-121: the existence test and git subtree add / pull
subtree_action ==
  /\ pc = "subtree_action"
  /\ subtree_exists' = Exists(wt, prefix_path)
  /\ LET p == prefix_path
         repo == RepoOf(remotes[remote])
         tip == upstreamTip[repo]
         cmd == subtree_cmd(subtree_exists')
     IN /\ log' = Append(log, Cmd(IF cmd = "add" THEN "subtree add" ELSE "subtree pull"))
        /\ \E out \in SubtreeOutcomes(cmd, p, repo, tip) :
             CASE out = "ok" ->
                    /\ branchTree' = [branchTree EXCEPT ![cur][p] = Imported(@, repo, tip)]
                    /\ index' = [index EXCEPT ![p] = Imported(@, repo, tip)]
                    /\ wt' = [wt EXCEPT ![p] = Imported(@, repo, tip)]
                    /\ res' = [res EXCEPT ![idx].act = cmd]
                    /\ pc' = "copy_license"
                    /\ NoFault
                    /\ UNCHANGED unmerged
               [] out = "conflict" ->
                    /\ wt' = [wt EXCEPT ![p].markers = TRUE]
                    /\ unmerged' = unmerged \cup {p}
                    /\ pc' = "except"
                    /\ res' = [res EXCEPT ![idx].st = "conflict", ![idx].act = cmd]
                    /\ NoFault
                    /\ UNCHANGED <<branchTree, index>>
               [] out = "fail" ->
                    /\ pc' = "except"
                    /\ res' = [res EXCEPT ![idx].st = "error", ![idx].act = cmd]
                    /\ IF SubtreeRefused(cmd, p) THEN NoFault ELSE Fault
                    /\ UNCHANGED <<branchTree, index, wt, unmerged>>
  /\ UNCHANGED <<inputs, clock, idx, entries, updates, update_branch, remote, prefix_path,
                 upstream_commit, license_note, ret, remotes, tracking, cur, originTree,
                 pushed, upstreamTip, ghost>>

\* lines 132-139: a conventional license file at the top of the mirror
find_license(tree, p) == Exists(tree, p) /\ tree[p].srclic

\* lines 142-149: the note copy_license returns
copy_license_note(found) == IF found THEN NoteSynced ELSE NoteNone

\* lines 226-227: find_license and copy_license
copy_license ==
  /\ pc = "copy_license"
  /\ LET p == prefix_path
         found == find_license(wt, p)
     IN \E ok \in IF found THEN BOOLEAN ELSE {TRUE} :
          IF ok
          THEN /\ wt' = [wt EXCEPT ![p].lic = found]
               /\ license_note' = copy_license_note(found)
               /\ pc' = "write_metadata"
               /\ NoFault
               /\ UNCHANGED res
          ELSE /\ Raise("error")
               /\ Fault
               /\ UNCHANGED <<wt, license_note>>
  /\ UNCHANGED <<inputs, clock, idx, entries, updates, update_branch, remote, prefix_path,
                 upstream_commit, subtree_exists, ret, remotes, tracking, gitrefs, index,
                 unmerged, upstreamTip, log, ghost>>

metadata_norev(entry, commit, note, t) ==
  [upstream |-> <<"https://github.com/", entry.upstream>>, branch |-> entry.default_branch,
   commit |-> 0, at |-> t, note |-> note]

\* lines 154-165: the content of UPSTREAM.md
metadata(entry, commit, note, t) ==
  [upstream |-> <<"https://github.com/", entry.upstream>>, branch |-> entry.default_branch,
   commit |-> commit, at |-> t, note |-> note]

\* lines 152-165, called at line 228
write_metadata ==
  /\ pc = "write_metadata"
  /\ \E ok \in BOOLEAN :
       IF ok
       THEN LET m == metadata(entries[idx], upstream_commit, license_note, now)
            IN /\ wt' = [wt EXCEPT ![prefix_path].meta = m]
               /\ res' = [res EXCEPT ![idx].wrote = m]
               /\ pc' = "status_for_prefix"
               /\ NoFault
       ELSE /\ Raise("error")
            /\ Fault
            /\ UNCHANGED wt
  /\ UNCHANGED <<inputs, clock, idx, entries, updates, update_branch, locals, ret, remotes,
                 tracking, gitrefs, index, unmerged, upstreamTip, log, ghost>>

\* lines 124-129: False when git status fails
status_for_prefix(p, fails) == IF fails THEN FALSE ELSE PorcelainNonEmpty(p)

UpdateResult(entry, commit, note, changed) ==
  [fork |-> entry, upstream_commit |-> commit, license_note |-> note, changed |-> changed]

\* lines 230-231 and 246-248: the result of process_entry, collected when changed
process_entry_return ==
  /\ pc = "status_for_prefix"
  /\ \E fails \in BOOLEAN :
       LET result == UpdateResult(entries[idx], upstream_commit, license_note,
                                  status_for_prefix(prefix_path, fails))
       IN /\ updates' = IF result.changed THEN Append(updates, result) ELSE updates
          /\ res' = [res EXCEPT ![idx].st = "ok", ![idx].changed = result.changed]
          /\ IF fails THEN Fault ELSE NoFault
  /\ idx' = idx + 1
  /\ pc' = "for"
  /\ UNCHANGED <<inputs, clock, entries, update_branch, locals, ret, remotes, tracking,
                 gitrefs, gittree, upstreamTip, log, ghost>>

issue_calls_always(tok) == <<"create_issue">>

\* lines 252-256: the API calls of the except clause
issue_calls(tok) == IF tok THEN <<"create_issue">> ELSE <<>>

\* lines 249-258: the failure is printed and, with a token, reported as an issue
main_except ==
  /\ pc = "except"
  /\ log' = log \o [k \in DOMAIN issue_calls(token) |-> Cmd(issue_calls(token)[k])]
  /\ idx' = idx + 1
  /\ pc' = "for"
  /\ UNCHANGED <<inputs, clock, faults, entries, updates, update_branch, locals, ret, remotes,
                 tracking, gitrefs, gittree, upstreamTip, res, ghost>>

NothingToPublish_entries == entries = <<>>

\* line 260: nothing to publish
NothingToPublish == updates = <<>>

\* lines 260-262
main_publish ==
  /\ pc = "publish"
  /\ IF NothingToPublish
     THEN /\ ret' = 0
          /\ pc' = "done"
     ELSE /\ pc' = "git_add"
          /\ UNCHANGED ret
  /\ UNCHANGED <<inputs, clock, faults, idx, entries, updates, update_branch, locals, remotes,
                 tracking, gitrefs, gittree, upstreamTip, log, res, ghost>>

\* lines 264-265: git status, git add .
git_add ==
  /\ pc = "git_add"
  /\ index' = wt
  /\ unmerged' = {}
  /\ log' = Append(log, Cmd("add"))
  /\ pc' = "git_commit"
  /\ UNCHANGED <<inputs, clock, faults, idx, entries, updates, update_branch, locals, ret, remotes,
                 tracking, gitrefs, wt, upstreamTip, res, ghost>>

\* line 266: git commit; it fails when nothing is staged
git_commit ==
  /\ pc = "git_commit"
  /\ log' = Append(log, Cmd("commit"))
  /\ \E ok \in BOOLEAN :
       IF ok /\ index # HeadTree
       THEN /\ branchTree' = [branchTree EXCEPT ![cur] = index]
            /\ pc' = "git_push"
            /\ NoFault
       ELSE /\ pc' = "raised"
            /\ IF index = HeadTree THEN NoFault ELSE Fault
            /\ UNCHANGED branchTree
  /\ UNCHANGED <<inputs, clock, idx, entries, updates, update_branch, locals, ret, remotes,
                 tracking, cur, originTree, pushed, gittree, upstreamTip, res, ghost>>

\* line 267: git push --set-upstream origin update_branch
git_push ==
  /\ pc = "git_push"
  /\ log' = Append(log, Cmd("push"))
  /\ \E ok \in BOOLEAN :
       IF ok
       THEN /\ pushed' = (update_branch :> branchTree[update_branch]) @@ pushed
            /\ pc' = "create_pr"
            /\ NoFault
       ELSE /\ pc' = "raised"
            /\ Fault
            /\ UNCHANGED pushed
  /\ UNCHANGED <<inputs, clock, idx, entries, updates, update_branch, locals, ret, remotes,
                 tracking, cur, branchTree, originTree, gittree, upstreamTip, res, ghost>>

\* lines 269-276 and 186-212: the review request, when a token is set
create_pr ==
  /\ pc = "create_pr"
  /\ IF token
     THEN /\ log' = Append(log, Cmd("create_pr"))
          /\ \E ok \in BOOLEAN : /\ ret' = IF ok THEN 0 ELSE 1
                                 /\ IF ok THEN NoFault ELSE Fault
     ELSE /\ ret' = 0
          /\ NoFault
          /\ UNCHANGED log
  /\ pc' = "done"
  /\ UNCHANGED <<inputs, clock, idx, entries, updates, update_branch, locals, remotes,
                 tracking, gitrefs, gittree, upstreamTip, res, ghost>>

\* ---------------------------------------------------------- environment
Range(f) == {f[x] : x \in DOMAIN f}

\* lines 279-280: the script is started again on the same clone, later; in
\* between a pushed update branch may have been merged into origin's default
\* branch and fetched
NewRun ==
  /\ pc \in {"done", "raised"}
  /\ run < MaxRuns
  /\ run' = run + 1
  /\ now' \in (now + 1)..(now + TicksPerDay)
  /\ originTree' \in {originTree} \cup Range(pushed)
  /\ prevRes' = res
  /\ res' = <<>>
  /\ log' = <<>>
  /\ pc' = "start"
  /\ idx' = 0
  /\ entries' = <<>>
  /\ updates' = <<>>
  /\ remote' = <<>>
  /\ prefix_path' = <<>>
  /\ upstream_commit' = 0
  /\ subtree_exists' = FALSE
  /\ license_note' = ""
  /\ ret' = -1
  /\ UNCHANGED <<inputs, faults, update_branch, remotes, tracking, cur, branchTree, pushed,
                 gittree, upstreamTip, snap, start>>

\* the upstream repository of the current entry receives a commit right before
\* git contacts it (git fetch at line 103, git subtree at line 121); a commit made
\* at any other moment is seen by the program as one made at the next of these
UpstreamAdvance ==
  /\ pc \in {"fetch_remote", "subtree_action"}
  /\ LET r == RepoOf(remotes[remote])
     IN /\ upstreamTip[r] < MaxRev
        /\ upstreamTip' = [upstreamTip EXCEPT ![r] = @ + 1]
  /\ UNCHANGED <<inputs, clock, faults, pc, idx, entries, updates, update_branch, locals, ret,
                 remotes, tracking, gitrefs, gittree, log, res, ghost>>

Next ==
  \/ main_checkout
  \/ load_entries
  \/ main_for
  \/ process_entry_begin
  \/ ensure_remote
  \/ fetch_remote
  \/ subtree_action
  \/ copy_license
  \/ write_metadata
  \/ process_entry_return
  \/ main_except
  \/ main_publish
  \/ git_add
  \/ git_commit
  \/ git_push
  \/ create_pr
  \/ UpstreamAdvance

\* one run of main
Spec == Init /\ [][Next]_vars

\* runs of main one after the other on the same clone, in an environment that
\* injects no failure
InitRerun == InitWith(0) /\ StoresAtRest(MirrorStore)
NextRerun == Next \/ NewRun
SpecRerun == InitRerun /\ [][NextRerun]_vars

\* ------------------------------------------------------ registry tools
\* scripts/manage_forks.py and scripts/generate_forks_json.py.  Strings that the
\* code takes apart (subtree_path) are sequences of characters, the others atoms.
program == <<registry, storeExists, token, now, faults, run, pc, idx, entries, updates,
             update_branch, remote, prefix_path, upstream_commit, subtree_exists, license_note,
             ret, remotes, tracking, cur, branchTree, originTree, pushed, index, wt, unmerged,
             upstreamTip, log, res, prevRes, snap, start>>

\* dict.get(key, default)
Get(f, key, default) == IF key \in DOMAIN f THEN f[key] ELSE default

\* manage_forks.py lines 230-264: one command of the tool is run
Command(name) ==
  /\ ncmd < MaxCmds
  /\ ncmd' = ncmd + 1
  /\ last_cmd' = name
  /\ before' = readme_forks

\* manage_forks.py lines 50-54
load_readme_forks(store) == IF ~store.exists THEN <<>> ELSE store.data

\* manage_forks.py lines 57-59
save_readme_forks(data) == [exists |-> TRUE, data |-> data]

\* str.startswith
startswith(s, t) == Len(t) <= Len(s) /\ SubSeq(s, 1, Len(t)) = t

\* manage_forks.py line 271
all_subtrees(data) == {data[i].subtree_path : i \in {j \in DOMAIN data : data[j].subtree_path # NoPath}}

\* manage_forks.py lines 273-277
is_subfolder(path, known) ==
  \E ks \in known : ks # NoPath /\ ks # path /\ startswith(path, ks \o <<"/">>)

\* manage_forks.py line 278
cleaned(data) ==
  SelectSeq(data, LAMBDA e : ~(e.subtree_path # NoPath /\ is_subfolder(e.subtree_path, all_subtrees(data))))

\* manage_forks.py lines 266-284
cmd_clean_faux_positifs ==
  /\ Command("clean-faux-positifs")
  /\ LET data == load_readme_forks(readme_forks)
         removed == Len(data) - Len(cleaned(data))
     IN readme_forks' = IF removed # 0 THEN save_readme_forks(cleaned(data)) ELSE readme_forks
  /\ UNCHANGED <<program, sync, forks_yaml, forks_json>>

\* the segments of a path: the parts between slashes, empty parts dropped
RECURSIVE Split(_, _)
Split(s, seg) ==
  IF s = <<>> THEN (IF seg = <<>> THEN <<>> ELSE <<seg>>)
  ELSE IF Head(s) = "/" THEN (IF seg = <<>> THEN <<>> ELSE <<seg>>) \o Split(Tail(s), <<>>)
       ELSE Split(Tail(s), Append(seg, Head(s)))
Segments(s) == Split(s, <<>>)

\* a word of one or more characters as the atom it spells
Word(chars) ==
  CASE Len(chars) = 1 -> chars[1]
    [] chars = <<"a", "b">> -> "ab"
    [] chars = <<"f", "o", "o">> -> "foo"
    [] OTHER -> "word"

\* put(key, value) on a dict
Put(f, key, value) == [k \in DOMAIN f \cup {key} |-> IF k = key THEN value ELSE f[k]]

\* "; ".join(list), each text of the list being the sequence of its pieces
RECURSIVE Join(_)
Join(list) ==
  IF list = <<>> THEN <<>>
  ELSE IF Len(list) = 1 THEN list[1]
  ELSE list[1] \o <<"; ">> \o Join(Tail(list))

\* ----- the GitHub API and the checkout the tool runs in
\* manage_forks.py lines 74-108, for a repository the API knows; repo is owner/name in two parts (line 78)
fetch_repo_info(repo) ==
  [owner |-> repo[1], name |-> repo[2],
   html_url |-> <<"https://github.com/">> \o repo,
   description |-> "", license_name |-> "MIT",
   license_html |-> <<"https://github.com/">> \o repo \o <<"/blob/", "main", "/LICENSE">>,
   default_branch |-> "main"]

\* the folders of the checkout that hold marker files, in sorted order, and for
\* each marker file the github URL its text holds (NoName: none)
WorkspaceDirs == << <<"a">>, <<"a", "/", "b">> >>
WorkspaceFiles(segs) ==
  CASE segs = << <<"a">> >> -> [m \in {"UPSTREAM.md", "LICENSE"} |->
                                  IF m = "UPSTREAM.md" THEN <<"o", "7">> ELSE NoName]
    [] segs = << <<"a">>, <<"b">> >> -> [m \in {"README.md"} |-> <<"r", "8">>]
    [] OTHER -> [m \in {} |-> NoName]

\* the marker files of a list that exist and hold a github URL, in list order
Matching(files, markers) ==
  SelectSeq(markers, LAMBDA m : m \in DOMAIN files /\ files[m] # NoName)
Detected(files, marker) ==
  [upstream |-> files[marker], upstream_url |-> <<"https://github.com/">> \o files[marker],
   note |-> <<"Upstream detected from ", marker>>]

\* manage_forks.py lines 424-439: the first marker with a URL ends the loop
detect_scan(files) ==
  LET hits == Matching(files, <<"UPSTREAM.md", "UPSTREAM_LICENSE">>)
  IN IF hits = <<>> THEN [upstream |-> NoName, upstream_url |-> NoName, note |-> <<>>]
     ELSE Detected(files, hits[1])

\* manage_forks.py lines 331-358: the inner loop runs inside each round of the
\* outer one and its break leaves the outer loop running; the last hit stays
RECURSIVE detect_verify_from(_, _, _)
detect_verify_from(files, k, found) ==
  LET outer == <<"UPSTREAM.md", "UPSTREAM_LICENSE", "README.md">>
      inner == Matching(files, <<"UPSTREAM.md", "UPSTREAM_LICENSE", "README.md", "LICENSE",
                                 "LICENSE.txt", "UPSTREAM_LICENSE.txt", "license.md", "LICENSE.md">>)
  IN IF k > Len(outer) THEN found
     ELSE IF Matching(files, <<outer[k]>>) # <<>> THEN Detected(files, outer[k])
     ELSE detect_verify_from(files, k + 1,
            IF inner = <<>> THEN found ELSE Detected(files, inner[1]))
detect_verify(files) ==
  detect_verify_from(files, 1, [upstream |-> NoName, upstream_url |-> NoName, note |-> <<>>])

\* manage_forks.py lines 111-136
build_entry_from_upstream(repo, source, subtree, at) ==
  LET info == fetch_repo_info(repo)
      owner == IF Len(source) > 1 THEN source[1]
               ELSE IF source = NoName THEN info.owner ELSE source[1]
      name == IF Len(source) > 1 THEN source[2] ELSE info.name
  IN [source |-> IF source # NoName THEN source ELSE <<owner, name>>,
      owner |-> owner, name |-> name, local_default_branch |-> "master",
      upstream |-> repo, upstream_url |-> info.html_url,
      upstream_default_branch |-> info.default_branch,
      upstream_description |-> info.description,
      upstream_license_name |-> info.license_name, upstream_license_url |-> info.license_html,
      subtree_path |-> subtree, subtree_exists |-> subtree # NoPath,
      subtree_license_file |-> Null, subtree_license_verified |-> FALSE, verified |-> FALSE,
      notes |-> <<>>, added_at |-> at]

\* manage_forks.py lines 142-143
exists_match(e, repo, source) ==
  Get(e, "upstream", NoName) = repo \/ (source # NoName /\ Get(e, "source", NoName) = source)

\* manage_forks.py lines 139-153 with the arguments of lines 234-236; found:
\* the API knows the repository
cmd_add ==
  /\ Command("add")
  /\ \E repo \in {<<"o", "1">>, <<"p", "9">>},
        source \in {NoName, <<"OurITRes", "1">>, <<"o", "1">>},
        subtree \in {NoPath, <<"x">>},
        found \in BOOLEAN :
       LET data == load_readme_forks(readme_forks)
       IN readme_forks' =
            IF \E i \in DOMAIN data : exists_match(data[i], repo, source) THEN readme_forks
            ELSE IF ~found THEN readme_forks
            ELSE save_readme_forks(Append(data, build_entry_from_upstream(repo, source, subtree, now)))
  /\ Len(load_readme_forks(readme_forks')) <= MaxStore
  /\ UNCHANGED <<program, sync, forks_yaml, forks_json>>

\* manage_forks.py lines 156-163 with the argument of line 239
cmd_remove ==
  /\ Command("remove")
  /\ \E target \in {<<"o", "1">>, <<"OurITRes", "2">>, <<"OurITRes", "b">>} :
       LET data == load_readme_forks(readme_forks)
           new == SelectSeq(data, LAMBDA e :
                    ~(\/ Get(e, "upstream", NoName) = target
                      \/ Get(e, "source", NoName) = target
                      \/ <<Get(e, "owner", "None"), Get(e, "name", "None")>> = target))
       IN readme_forks' = IF Len(new) = Len(data) THEN readme_forks ELSE save_readme_forks(new)
  /\ UNCHANGED <<program, sync, forks_yaml, forks_json>>

\* manage_forks.py lines 285-312; known: the repositories the API finds
cmd_update_licenses ==
  /\ Command("update-licenses")
  /\ LET data == load_readme_forks(readme_forks)
         upstreams == {data[i].upstream : i \in {j \in DOMAIN data : Get(data[j], "upstream", NoName) # NoName}}
     IN \E known \in SUBSET upstreams :
          LET new == [i \in DOMAIN data |->
                        IF Get(data[i], "upstream", NoName) \notin known THEN data[i]
                        ELSE LET info == fetch_repo_info(data[i].upstream)
                             IN Put(Put(data[i], "upstream_license_name", info.license_name),
                                    "upstream_license_url", info.license_html)]
          IN readme_forks' = IF new # data THEN save_readme_forks(new) ELSE readme_forks
  /\ UNCHANGED <<program, sync, forks_yaml, forks_json>>

\* lines 322-368 without the test of line 322: the upstream is written over
verify_entry_overwrites_upstream(entry) ==
  IF Get(entry, "subtree_path", NoPath) = NoPath THEN entry
  ELSE LET hit == detect_verify(WorkspaceFiles(Segments(entry.subtree_path)))
           notes == Get(entry, "notes", <<>>)
       IN IF hit.upstream = NoName THEN entry
          ELSE Put(Put(Put(entry, "upstream", hit.upstream), "upstream_url", hit.upstream_url),
                   "notes", IF notes # <<>> THEN notes \o <<"; ">> \o hit.note ELSE hit.note)

\* lines 322-368 with the note replacing the notes (lines 362-366 dropped)
verify_entry_replaces_notes(entry) ==
  IF Get(entry, "upstream", NoName) # NoName \/ Get(entry, "subtree_path", NoPath) = NoPath THEN entry
  ELSE LET hit == detect_verify(WorkspaceFiles(Segments(entry.subtree_path)))
       IN IF hit.upstream = NoName THEN entry
          ELSE Put(Put(Put(entry, "upstream", hit.upstream), "upstream_url", hit.upstream_url),
                   "notes", hit.note)

\* lines 322-368 with the detected upstream taken as verified
verify_entry_promotes(entry) ==
  IF Get(entry, "upstream", NoName) # NoName \/ Get(entry, "subtree_path", NoPath) = NoPath THEN entry
  ELSE LET hit == detect_verify(WorkspaceFiles(Segments(entry.subtree_path)))
           notes == Get(entry, "notes", <<>>)
       IN IF hit.upstream = NoName THEN entry
          ELSE Put(Put(Put(Put(entry, "upstream", hit.upstream), "upstream_url", hit.upstream_url),
                       "notes", IF notes # <<>> THEN notes \o <<"; ">> \o hit.note ELSE hit.note),
                   "verified", TRUE)

\* manage_forks.py lines 322-368
verify_entry(entry) ==
  IF Get(entry, "upstream", NoName) # NoName \/ Get(entry, "subtree_path", NoPath) = NoPath THEN entry
  ELSE LET hit == detect_verify(WorkspaceFiles(Segments(entry.subtree_path)))
           notes == Get(entry, "notes", <<>>)
       IN IF hit.upstream = NoName THEN entry
          ELSE Put(Put(Put(entry, "upstream", hit.upstream), "upstream_url", hit.upstream_url),
                   "notes", IF notes # <<>> THEN notes \o <<"; ">> \o hit.note ELSE hit.note)

\* manage_forks.py lines 313-374
cmd_verify_upstreams ==
  /\ Command("verify-upstreams")
  /\ LET data == load_readme_forks(readme_forks)
         new == [i \in DOMAIN data |-> verify_entry(data[i])]
     IN readme_forks' = IF new # data THEN save_readme_forks(new) ELSE readme_forks
  /\ UNCHANGED <<program, sync, forks_yaml, forks_json>>

\* manage_forks.py lines 453-458: the inner loop runs inside each round of the outer one
RECURSIVE marker_notes(_, _)
marker_notes(files, k) ==
  LET outer == <<"README.md", "UPSTREAM.md", "UPSTREAM_LICENSE">>
      inner == SelectSeq(<<"README.md", "UPSTREAM.md", "UPSTREAM_LICENSE", "LICENSE", "LICENSE.txt",
                           "UPSTREAM_LICENSE.txt", "license.md", "LICENSE.md">>,
                         LAMBDA m : m \in DOMAIN files)
  IN IF k > Len(outer) THEN <<>>
     ELSE (IF outer[k] \in DOMAIN files THEN << <<outer[k], " present">> >> ELSE <<>>)
          \o [n \in DOMAIN inner |-> <<inner[n], " present">>]
          \o marker_notes(files, k + 1)

\* manage_forks.py lines 416-477
stub(m, at) ==
  LET files == WorkspaceFiles(Segments(m))
      hit == detect_scan(files)
      name == Word(Segments(m)[Len(Segments(m))])
      upstream_note == IF hit.upstream = NoName THEN <<"No upstream detected">> ELSE hit.note
  IN [source |-> <<name>>, owner |-> "OurITRes", name |-> name, local_default_branch |-> "main",
      upstream |-> hit.upstream, upstream_url |-> hit.upstream_url,
      upstream_default_branch |-> Null, upstream_description |-> "",
      upstream_license_name |-> Null, upstream_license_url |-> Null,
      subtree_path |-> m, subtree_exists |-> TRUE,
      subtree_license_file |-> Null, subtree_license_verified |-> FALSE, verified |-> FALSE,
      notes |-> Join(<< <<"Stub auto-ajoute par scan">>, upstream_note >> \o marker_notes(files, 1)),
      added_at |-> at]

\* manage_forks.py lines 375-481
cmd_scan ==
  /\ Command("scan")
  /\ LET data == load_readme_forks(readme_forks)
         known_subtrees == all_subtrees(data)
         missing == SelectSeq(WorkspaceDirs, LAMBDA d :
                      ~\E ks \in known_subtrees :
                          ks # NoPath /\ (d = ks \/ startswith(d, ks \o <<"/">>)))
     IN readme_forks' =
          IF missing = <<>> THEN readme_forks
          ELSE save_readme_forks(data \o [k \in DOMAIN missing |-> stub(missing[k], now)])
  /\ Len(load_readme_forks(readme_forks')) <= MaxStore
  /\ UNCHANGED <<program, sync, forks_yaml, forks_json>>

\* generate_forks_json.py lines 17-25
generate_entry(f) ==
  [source |-> Get(f, "source", Null),
   owner |-> Get(f, "owner", Null),
   name |-> Get(f, "name", Null),
   default_branch |-> Get(f, "default_branch", "master"),
   upstream |-> Get(f, "upstream", ""),
   migrate_to |-> Get(f, "migrate_to", ""),
   url |-> Get(f, "url", "")]

\* generate_forks_json.py lines 12-27
generate_forks_json ==
  /\ Command("generate_forks_json")
  /\ forks_json' = [i \in DOMAIN forks_yaml |-> generate_entry(forks_yaml[i])]
  /\ UNCHANGED <<program, sync, readme_forks, forks_yaml>>

NextTools ==
  \/ cmd_clean_faux_positifs
  \/ generate_forks_json

\* the registry tools, run in any order on any registry, in a clone where
\* update_subtrees.py is not running
InitTools ==
  /\ InitWith(0)
  /\ registry = <<RawFoo>>
  /\ storeExists
  /\ ~token
  /\ \/ readme_forks \in ReadmeStores /\ forks_yaml = <<>>
     \/ readme_forks = NoStore /\ forks_yaml \in YamlLists
  /\ SyncAtRest
  /\ ncmd = 0
  /\ forks_json = <<>>
  /\ last_cmd = NoTool
  /\ before = readme_forks
SpecTools == InitTools /\ [][NextTools]_vars

\* the registries the maintenance commands start from: no two entries share a
\* source or an upstream
MaintStores ==
  LET choices(i) == {StoreEntry(i, NoPath), StoreEntry(i, <<"a">>), HandEntry(i, <<"a", "/", "b">>)}
  IN {NoStore} \cup
     {[exists |-> TRUE, data |-> d] : d \in
        UNION {{d \in [1..n -> UNION {choices(i) : i \in 1..n}] : \A i \in 1..n : d[i] \in choices(i)}
               : n \in 0..MaxStore}}

NextMaint ==
  \/ cmd_add
  \/ cmd_remove
  \/ cmd_scan
  \/ cmd_verify_upstreams
  \/ cmd_update_licenses
  \/ cmd_clean_faux_positifs

\* manage_forks.py run any number of times on any registry
InitMaint ==
  /\ InitWith(0)
  /\ registry = <<RawFoo>>
  /\ storeExists
  /\ ~token
  /\ readme_forks \in MaintStores
  /\ forks_yaml = <<>>
  /\ SyncAtRest
  /\ ncmd = 0
  /\ forks_json = <<>>
  /\ last_cmd = NoTool
  /\ before = readme_forks
SpecMaint == InitMaint /\ [][NextMaint]_vars

\* manage_forks.py add run any number of times
SpecAdd == InitMaint /\ [][cmd_add]_vars

\* ------------------------------------------------------ sync_forks.py
\* scripts/sync_forks.py: every fork of the list is cloned into a fresh
\* directory and synchronised there.  Every command can fail.
SyncEntry(strategy, with_pr) ==
  [repo |-> <<"OurITRes", "x">>, upstream |-> <<"o", "x">>, default_branch |-> "main",
   sync_strategy |-> strategy, create_pr |-> with_pr]
\* the forks lists; one kind of entry leaves the optional keys out
SyncLists ==
  LET given == {[repo |-> <<"OurITRes", "y">>, upstream |-> <<"o", "y">>]} \cup
               {SyncEntry(s, c) : s \in {"merge", "rebase", "squash"}, c \in BOOLEAN}
  IN UNION {[1..n -> given] : n \in 0..MaxForks}

\* lines 136-137
strategy_of(entry) == Get(entry, "sync_strategy", "merge")
create_pr_of(entry) == Get(entry, "create_pr", FALSE)

\* lines 135 and 108: the fork's default branch as a ref of origin
DefaultRef(entry) == [kind |-> Get(entry, "default_branch", "main"), day |-> 0]
\* line 93: sync/upstream-<UTC date>
SyncBranchName(t) == [kind |-> "sync/upstream", day |-> Day(t)]

\* the entry is over: what it ended with
EndEntry(outcome, steps) ==
  /\ results' = Append(results,
       [strategy |-> strategy_of(forks[fork_i]), create_pr |-> create_pr_of(forks[fork_i]),
        failed |-> failed, trail |-> steps, ret |-> outcome])
  /\ trail' = steps
  /\ sync_pc' = "for"

\* a command of main or perform_sync whose failure is not caught before the
\* except clauses of lines 151-154
SyncStep(cmd, to) ==
  /\ \E ok \in BOOLEAN :
       LET steps == Append(trail, <<cmd, ok>>)
       IN IF ok
          THEN /\ trail' = steps
               /\ sync_pc' = to
               /\ UNCHANGED results
          ELSE EndEntry("raised", steps)
  /\ UNCHANGED <<program, stores, forks, pat, fork_i, failed, merged, pushes>>

\* lines 114-132 and 155-157
sync_main ==
  /\ sync_pc = "start"
  /\ sync_pc' = IF forks = <<>> THEN "done" ELSE "for"
  /\ UNCHANGED <<program, stores, forks, pat, fork_i, failed, merged, trail, pushes, results>>

\* lines 132-139
sync_for ==
  /\ sync_pc = "for"
  /\ IF fork_i < Len(forks)
     THEN /\ fork_i' = fork_i + 1
          /\ sync_pc' = "clone_repo"
          /\ failed' = FALSE
          /\ merged' = FALSE
          /\ trail' = <<>>
     ELSE /\ sync_pc' = "done"
          /\ UNCHANGED <<fork_i, failed, merged, trail>>
  /\ UNCHANGED <<program, stores, forks, pat, pushes, results>>

\* lines 37-43 and 30-35: without the token get_pat ends the program
clone_repo ==
  /\ sync_pc = "clone_repo"
  /\ IF pat
     THEN SyncStep("clone", "add_upstream")
     ELSE /\ sync_pc' = "exited"
          /\ UNCHANGED <<program, stores, forks, pat, fork_i, failed, merged, trail, pushes, results>>

\* lines 45-51
add_upstream ==
  /\ sync_pc = "add_upstream"
  /\ SyncStep("remote add", "config")
\* lines 144-145
git_config ==
  /\ sync_pc = "config"
  /\ SyncStep("config", "fetch_all")
\* lines 53-55
fetch_all ==
  /\ sync_pc = "fetch_all"
  /\ SyncStep("fetch", "checkout_branch")
\* lines 57-60
checkout_branch ==
  /\ sync_pc = "checkout_branch"
  /\ SyncStep("checkout -B", "strategy")

\* lines 79-85 with the push attempted all the same
after_failure_pushes(with_pr) == IF with_pr THEN "checkout_sync" ELSE "push_default"

\* lines 69-75: where perform_sync goes on after a merge that failed
after_merge_failure(with_pr) == IF with_pr THEN "checkout_sync" ELSE "return_false"
\* lines 79-85: where perform_sync goes on after a rebase that failed
after_rebase_failure(with_pr) == IF with_pr THEN "checkout_sync" ELSE "return_false"
\* lines 66-88
sync_strategy ==
  /\ sync_pc = "strategy"
  /\ LET entry == forks[fork_i]
         strategy == strategy_of(entry)
         with_pr == create_pr_of(entry)
     IN IF strategy \in {"merge", "rebase"}
        THEN \E ok \in BOOLEAN :
               /\ trail' = Append(trail, <<strategy, ok>>)
               /\ failed' = ~ok
               /\ merged' = ok
               /\ sync_pc' = IF ok THEN (IF with_pr THEN "checkout_sync" ELSE "push_default")
                             ELSE IF strategy = "merge" THEN after_merge_failure(with_pr)
                             ELSE after_rebase_failure(with_pr)
        ELSE /\ failed' = TRUE
             /\ sync_pc' = "return_false"
             /\ UNCHANGED <<trail, merged>>
  /\ UNCHANGED <<program, stores, forks, pat, fork_i, pushes, results>>

\* lines 75, 85, 88, 99 and 111: return False
return_false ==
  /\ sync_pc = "return_false"
  /\ EndEntry("False", trail)
  /\ UNCHANGED <<program, stores, forks, pat, fork_i, failed, merged, pushes>>

\* line 94
checkout_sync ==
  /\ sync_pc = "checkout_sync"
  /\ SyncStep("checkout -B sync", "push_sync")

\* lines 95-99
push_sync ==
  /\ sync_pc = "push_sync"
  /\ \E ok \in BOOLEAN :
       /\ trail' = Append(trail, <<"push sync", ok>>)
       /\ pushes' = IF ok THEN Append(pushes, [i |-> fork_i, ref |-> SyncBranchName(now), merged |-> merged]) ELSE pushes
       /\ sync_pc' = IF ok THEN "pr_create" ELSE "return_false"
  /\ UNCHANGED <<program, stores, forks, pat, fork_i, failed, merged, results>>

\* lines 101-104 and 112: a failure of gh is only reported
pr_create ==
  /\ sync_pc = "pr_create"
  /\ \E ok \in BOOLEAN : EndEntry("True", Append(trail, <<"pr create", ok>>))
  /\ UNCHANGED <<program, stores, forks, pat, fork_i, failed, merged, pushes>>

\* lines 107-112
push_default ==
  /\ sync_pc = "push_default"
  /\ \E ok \in BOOLEAN :
       LET steps == Append(trail, <<"push default", ok>>)
       IN IF ok
          THEN /\ pushes' = Append(pushes, [i |-> fork_i, ref |-> DefaultRef(forks[fork_i]), merged |-> merged])
               /\ EndEntry("True", steps)
          ELSE /\ trail' = steps
               /\ sync_pc' = "return_false"
               /\ UNCHANGED <<pushes, results>>
  /\ UNCHANGED <<program, stores, forks, pat, fork_i, failed, merged>>

NextSync ==
  \/ sync_main
  \/ sync_for
  \/ clone_repo
  \/ add_upstream
  \/ git_config
  \/ fetch_all
  \/ checkout_branch
  \/ sync_strategy
  \/ return_false
  \/ checkout_sync
  \/ push_sync
  \/ pr_create
  \/ push_default

\* sync_forks.py run once on any forks list
InitSync ==
  /\ InitWith(0)
  /\ registry = <<RawFoo>>
  /\ storeExists
  /\ ~token
  /\ ncmd = 0
  /\ readme_forks = MirrorStore
  /\ forks_yaml = <<>>
  /\ forks_json = <<>>
  /\ last_cmd = NoTool
  /\ before = MirrorStore
  /\ forks \in SyncLists
  /\ pat \in BOOLEAN
  /\ sync_pc = "start"
  /\ fork_i = 0
  /\ failed = FALSE
  /\ merged = FALSE
  /\ trail = <<>>
  /\ pushes = <<>>
  /\ results = <<>>
SpecSync == InitSync /\ [][NextSync]_vars

\* --------------------------------------------------------------- claims
Ops(names) == {k \in DOMAIN log : log[k].op \in names}
\* the entries the loop is done with
Handled == 1..(idx - 1)
AfterLoop == entries # <<>> /\ idx > Len(entries)
ChangedPrefixes == {prefix(updates[k].fork) : k \in DOMAIN updates}

\* C1: an error raised while entry i is handled never leaves the batch loop:
\* main is never ended by an exception while an entry of the registry is current.
C1_ErrorStaysInLoop == pc = "raised" => idx \notin DOMAIN entries

\* C2: when the subtree pull of entry i ended in a conflict, the working tree and
\* the index are, when entry i+1 is about to begin, what they were when entry i
\* started.
C2_ConflictRolledBack ==
  (pc = "for" /\ idx \in DOMAIN entries /\ (idx - 1) \in DOMAIN res /\ res[idx - 1].st = "conflict")
    => Snapshot = snap

\* C3: an entry reconciled in two runs in succession, with the same upstream tip
\* in both and no upstream commit since, has changed = false in the second run.
\* (Stated for the case most favourable to it: the second run starts from an
\* origin that already holds what the first run published for the entry.)
C3_SecondRunUnchanged ==
  \A i \in DOMAIN res :
    (/\ i \in DOMAIN prevRes
     /\ prevRes[i].st = "ok"
     /\ res[i].st = "ok"
     /\ res[i].tip = prevRes[i].tip
     /\ upstreamTip[entries[i].upstream] = prevRes[i].tip
     /\ originTree[prefix(entries[i])].repo = entries[i].upstream
     /\ originTree[prefix(entries[i])].rev = prevRes[i].tip
     /\ originTree[prefix(entries[i])].meta = prevRes[i].wrote) => ~res[i].changed

\* C4: a run that ends with an empty changed-set has created and checked out no
\* branch: the branches and the checkout are those the run started with.
C4_NoBranchWhenNothingChanged ==
  (pc = "done" /\ updates = <<>>) => (DOMAIN branchTree = start.branches /\ cur = start.cur)

\* C5: while the changed-set is empty no git add, git commit, git push or review
\* request is issued, and a run that ends its loop with an empty changed-set
\* returns 0.
C5_EmptyChangedSetPublishesNothing ==
  updates = <<>> =>
    /\ Ops({"add", "commit", "push", "create_pr"}) = {}
    /\ pc \notin {"git_add", "git_commit", "git_push", "create_pr"}
    /\ ret \in {-1, 0}
    /\ (pc = "done" <=> ret = 0)
    /\ AfterLoop => pc \in {"for", "publish", "done"}

C5_Witness ==
  /\ pc = "done" /\ ret = 0 /\ updates = <<>>
  /\ \E i \in DOMAIN res : res[i].st # "pending"

\* C6: an entry whose mirror path did not exist in the working tree when it was
\* processed is imported with git subtree add, never merged with git subtree pull.
C6_MissingMirrorIsAdded ==
  (idx \in DOMAIN res /\ res[idx].act # "none" /\ ~Exists(snap.wt, prefix(entries[idx])))
    => (res[idx].act = "add" /\ log[Len(log)].op # "subtree pull")

C6_Witness ==
  /\ pc = "copy_license" /\ res[idx].act = "add"
  /\ ~Exists(snap.wt, prefix_path) /\ Exists(wt, prefix_path)

\* C7: every entry that ended clean or conflicted had its UPSTREAM.md written in
\* the run.
C7_MetadataAlwaysWritten ==
  \A i \in Handled \cap DOMAIN res : res[i].st \in {"ok", "conflict"} => res[i].wrote # NoMeta

\* C8: the record write_metadata writes holds the entry's upstream identity and a
\* non-empty revision, the tip fetch_remote returned for the entry in this run.
C8_MetadataNamesFetchedTip ==
  /\ \A i \in DOMAIN res :
       res[i].wrote # NoMeta =>
         /\ res[i].wrote.upstream = <<"https://github.com/", entries[i].upstream>>
         /\ res[i].wrote.commit # 0
         /\ res[i].wrote.commit = res[i].tip
  /\ pc = "status_for_prefix" => wt[prefix_path].meta = res[idx].wrote

C8_Witness ==
  /\ pc = "status_for_prefix"
  /\ wt[prefix_path].meta.commit > 1
  /\ wt[prefix_path].meta.commit = tracking[<<remote, entries[idx].default_branch>>]

\* C9: what is pushed differs from origin's default branch only under the mirror
\* paths of the entries of the changed-set.
C9_OnlyChangedSetPublished ==
  (pc = "create_pr" /\ update_branch \in DOMAIN pushed) =>
    \A p \in Prefixes : pushed[update_branch][p] # originTree[p] => p \in ChangedPrefixes

\* C10: a run with a non-empty changed-set creates one update branch, commits
\* once, pushes once and opens at most one review request, all of it after the
\* last entry was processed.
C10_PublishOnceAfterLoop ==
  (pc = "done" /\ updates # <<>>) =>
    /\ Cardinality(Ops({"checkout -B"})) = 1
    /\ Cardinality(Ops({"commit"})) = 1
    /\ Cardinality(Ops({"push"})) = 1
    /\ Cardinality(Ops({"create_pr"})) <= 1
    /\ \A k \in Ops({"checkout -B", "commit", "push", "create_pr"}) : log[k].idx > Len(entries)

\* C11: when process_entry has returned for an entry whose mirror path was absent
\* when the entry started (an initial import), the result has changed = true.
C11_InitialImportChanged ==
  (/\ pc = "for"
   /\ (idx - 1) \in DOMAIN res
   /\ res[idx - 1].st = "ok"
   /\ ~Exists(snap.wt, prefix(entries[idx - 1])))
    => res[idx - 1].changed

\* C12: main exits with a non-zero status (an uncaught exception or return 1)
\* only when the run as a whole could not proceed, that is on a failure outside
\* the handling of the entries: never while an entry of the registry is current.
ExitStatus == IF pc = "raised" THEN 1 ELSE ret
C12_NonZeroExitOnlyForRunFailure ==
  (pc \in {"done", "raised"} /\ ExitStatus # 0) => idx \notin DOMAIN entries

\* C14: when forks.json does not exist, load_entries returns an empty sequence
\* and main goes on; load_readme_forks returns an empty sequence for a missing
\* readme_forks.json.
C14_MissingStoreLoadsEmpty ==
  /\ load_readme_forks(NoStore) = <<>>
  /\ (~storeExists /\ Ops({"checkout -B"}) # {} /\ pc # "load") => (pc # "raised" /\ entries = <<>>)

\* C13: a call of ensure_remote that returns leaves the remote bound to the
\* entry's URL whatever it was bound to before; a call that finds the remote
\* bound to the URL already (as a second call does) issues no remote add and no
\* remote set-url; no call changes another remote.
C13_EnsureRemoteIdempotent ==
  [][ensure_remote =>
       LET url == upstream_url(entries[idx])
       IN /\ pc' = "fetch_remote" => remotes'[remote] = url
          /\ \A r \in RemoteNames \ {remote} : remotes'[r] = remotes[r]
          /\ remotes[remote] = url => (log' = log /\ remotes' = remotes /\ pc' = "fetch_remote")]_vars

\* the second run's call for an entry the first run bound: nothing was issued
C13_Witness ==
  /\ run = 2 /\ pc = "fetch_remote"
  /\ idx \in DOMAIN prevRes /\ prevRes[idx].tip # 0
  /\ remotes[remote] = upstream_url(entries[idx])
  /\ \A k \in Ops({"remote add", "remote set-url"}) : log[k].idx # idx

\* the fields generate_forks_json.py knows
KnownFields == {"source", "owner", "name", "default_branch", "upstream", "migrate_to", "url"}

\* C15: an operation that reads registry entries and writes them again keeps the
\* fields it does not know: every entry clean-faux-positifs retains is an entry
\* it loaded, whole, and every entry generate_forks_json.py writes has the
\* unknown fields of the entry it read, with their values.
C15_UnknownFieldsKept ==
  /\ last_cmd = "clean-faux-positifs" =>
       \A i \in DOMAIN readme_forks.data :
         \E j \in DOMAIN load_readme_forks(before) : load_readme_forks(before)[j] = readme_forks.data[i]
  /\ last_cmd = "generate_forks_json" =>
       \A i \in DOMAIN forks_yaml : \A k \in DOMAIN forks_yaml[i] \ KnownFields :
         /\ i \in DOMAIN forks_json
         /\ k \in DOMAIN forks_json[i]
         /\ forks_json[i][k] = forks_yaml[i][k]

\* p names a directory strictly below the directory q names
StrictSubPath(p, q) ==
  LET a == Segments(p)
      b == Segments(q)
  IN b # <<>> /\ Len(b) < Len(a) /\ SubSeq(a, 1, Len(b)) = b

Nested(e, data) ==
  /\ e.subtree_path # NoPath
  /\ \E j \in DOMAIN data : data[j].subtree_path # NoPath
                            /\ StrictSubPath(e.subtree_path, data[j].subtree_path)

\* C16: after clean-faux-positifs the registry is the registry it loaded without
\* the entries whose subtree_path is a strict sub-path of another entry's: the
\* others are all there, unmodified and in the same order.
C16_CleanRemovesNestedOnly ==
  last_cmd = "clean-faux-positifs" =>
    load_readme_forks(readme_forks) =
      SelectSeq(load_readme_forks(before), LAMBDA e : ~Nested(e, load_readme_forks(before)))

\* C17: without GITHUB_TOKEN main makes no create_issue and no create_pr call and
\* never returns 1; the except clause goes on to the next entry and the publish
\* step ends the run with 0, as they do with a token, without any API call.
C17_NoCredentialDegrades ==
  /\ [](~token => (Ops({"create_issue", "create_pr"}) = {} /\ (pc = "done" => ret = 0)))
  /\ [][~token =>
          /\ pc = "except" => (pc' = "for" /\ idx' = idx + 1 /\ log' = log)
          /\ pc = "create_pr" => (pc' = "done" /\ ret' = 0 /\ log' = log)]_vars

\* a run without token in which an entry failed and another one was published
C17_Witness ==
  /\ ~token /\ pc = "done" /\ ret = 0
  /\ \E i \in DOMAIN res : res[i].st \in {"error", "conflict"}
  /\ updates # <<>> /\ update_branch \in DOMAIN pushed

\* the git commands of process_entry
EntryOps == {"remote add", "remote set-url", "fetch", "subtree add", "subtree pull"}

\* C18: the entries are handled in registry order and one at a time (every
\* entry before the current one has ended in success, conflict or error, no
\* later one has started, no command goes back to an earlier entry), none is
\* fetched twice, and when the run is over each entry has been handled.
C18_InOrderOnceOneAtATime ==
  /\ \A j, k \in DOMAIN log : j < k => log[j].idx <= log[k].idx
  /\ \A i \in DOMAIN res : /\ i < idx => res[i].st # "pending"
                           /\ i > idx => res[i] = Pending
  /\ \A k \in Ops(EntryOps) : log[k].idx \in DOMAIN entries /\ log[k].idx <= idx
  /\ \A i \in DOMAIN entries : Cardinality({k \in Ops({"fetch"}) : log[k].idx = i}) <= 1
  /\ (pc \in {"done", "raised"} /\ entries # <<>>) =>
       \A i \in DOMAIN entries \ {idx} : res[i].st # "pending"

\* git fetch was run for entry i and failed
FetchFailed(i) ==
  /\ res[i].st = "error"
  /\ res[i].tip = 0
  /\ \E k \in Ops({"fetch"}) : log[k].idx = i

\* C19: an entry whose fetch failed gets no git subtree add / pull, no
\* UPSTREAM_LICENSE and no UPSTREAM.md (the working tree and the index are, when
\* the except clause is reached, what they were when the entry started), and is
\* not in updates; updates holds, in registry order, exactly the entries whose
\* process_entry returned changed = true.
C19_FailedFetchTouchesNothing ==
  /\ \A i \in DOMAIN res :
       FetchFailed(i) =>
         /\ res[i].act = "none" /\ res[i].wrote = NoMeta /\ ~res[i].changed
         /\ \A k \in Ops({"subtree add", "subtree pull"}) : log[k].idx # i
         /\ \A k \in DOMAIN updates : updates[k].fork # entries[i]
         /\ (idx = i /\ pc = "except") => Snapshot = snap
  /\ [k \in DOMAIN updates |-> updates[k].fork] =
       SelectSeq(entries, LAMBDA e : \E i \in DOMAIN res : entries[i] = e /\ res[i].changed)

\* a finished run in which one entry's fetch failed and another entry changed
C19_Witness ==
  /\ pc = "done"
  /\ \E i \in DOMAIN res : FetchFailed(i)
  /\ \E j \in DOMAIN res : res[j].changed

\* the characters of a mirror prefix, as readme_forks.json spells a subtree_path
SegmentChars(seg) ==
  CASE seg = "foo" -> <<"f", "o", "o">>
    [] seg = "bar" -> <<"b", "a", "r">>
    [] seg = "vendor" -> <<"v", "e", "n", "d", "o", "r">>
RECURSIVE PathChars(_)
PathChars(p) ==
  IF Len(p) = 1 THEN SegmentChars(p[1])
  ELSE SegmentChars(p[1]) \o <<"/">> \o PathChars(Tail(p))

\* the registry marks the license of the mirror at prefix p as verified
LicenseVerified(p) ==
  \E j \in DOMAIN load_readme_forks(readme_forks) :
    /\ readme_forks.data[j].subtree_path = PathChars(p)
    /\ readme_forks.data[j].subtree_license_verified

\* C20: when process_entry has succeeded for an entry, its mirror holds
\* UPSTREAM_LICENSE exactly when it holds a conventional license file at its top
\* level, the license note names the case, and in the found case the entry's
\* license state is verified.
C20_LicenseCopiedAndVerified ==
  (pc = "for" /\ (idx - 1) \in DOMAIN res /\ res[idx - 1].st = "ok") =>
    LET p == prefix(entries[idx - 1])
    IN /\ wt[p].lic <=> find_license(wt, p)
       /\ license_note = copy_license_note(wt[p].lic)
       /\ wt[p].meta.note = license_note
       /\ wt[p].lic => LicenseVerified(p)

\* C21: after clean-faux-positifs no two entries of the registry have
\* overlapping paths: no two entries have equal subtree_path values and no
\* entry's subtree_path is a strict sub-path of another entry's.
C21_NoOverlapAfterClean ==
  last_cmd = "clean-faux-positifs" =>
    LET data == load_readme_forks(readme_forks)
    IN \A i, j \in DOMAIN data :
         (i # j /\ data[i].subtree_path # NoPath /\ data[j].subtree_path # NoPath) =>
           /\ data[i].subtree_path # data[j].subtree_path
           /\ ~StrictSubPath(data[i].subtree_path, data[j].subtree_path)

\* the registry before and after the last command of manage_forks.py
OldData == load_readme_forks(before)
NewData == load_readme_forks(readme_forks)
\* add, scan, verify-upstreams and update-licenses keep every entry at its
\* place in the list; remove and clean-faux-positifs only take entries out

\* C22: no maintenance command changes the added_at of an existing entry or an
\* upstream that is set on it: the commands that keep entries in place leave
\* both fields of every earlier entry alone, the commands that remove entries
\* leave the retained entries as they were, and verify-upstreams writes an
\* upstream only into entries that had none.
C22_AddedAtAndUpstreamStable ==
  /\ last_cmd \in {"add", "scan", "verify-upstreams", "update-licenses"} =>
       /\ Len(NewData) >= Len(OldData)
       /\ \A i \in DOMAIN OldData :
            /\ NewData[i].added_at = OldData[i].added_at
            /\ OldData[i].upstream # NoName => NewData[i].upstream = OldData[i].upstream
  /\ last_cmd \in {"remove", "clean-faux-positifs"} => NewData = SelectSeq(OldData, LAMBDA e : \E i \in DOMAIN NewData : NewData[i] = e)
  /\ last_cmd = "verify-upstreams" =>
       \A i \in DOMAIN OldData :
         NewData[i].upstream # OldData[i].upstream => OldData[i].upstream = NoName
C22_Witness ==
  /\ last_cmd = "verify-upstreams"
  /\ \E i, j \in DOMAIN OldData :
       /\ OldData[i].upstream = NoName /\ NewData[i].upstream # NoName
       /\ NewData[i].added_at = 0 /\ now # 0
       /\ OldData[j].upstream # NoName /\ OldData[j].subtree_path = <<"a">>

\* C23: the notes of an existing entry only grow: after every command the notes
\* an entry had before are a prefix of the notes it has now, for every entry
\* the command retained.
C23_NotesAppendOnly ==
  /\ last_cmd \in {"add", "scan", "verify-upstreams", "update-licenses"} =>
       \A i \in DOMAIN OldData : i \in DOMAIN NewData /\ startswith(NewData[i].notes, OldData[i].notes)
  /\ last_cmd \in {"remove", "clean-faux-positifs"} =>
       \A j \in DOMAIN NewData : \E i \in DOMAIN OldData :
         NewData[j] = OldData[i] /\ startswith(NewData[j].notes, OldData[i].notes)
C23_Witness ==
  /\ last_cmd = "verify-upstreams"
  /\ \E i \in DOMAIN OldData :
       /\ OldData[i].notes # <<>>
       /\ Len(NewData[i].notes) > Len(OldData[i].notes)
       /\ startswith(NewData[i].notes, OldData[i].notes)

\* C24: scan and verify-upstreams never set verified: every stub that scan
\* appends has verified = FALSE, and after verify-upstreams every entry has
\* the verified value it had before, also where an upstream was filled in.
C24_DiscoveryNeverVerifies ==
  /\ last_cmd = "scan" =>
       /\ \A i \in DOMAIN OldData : NewData[i].verified = OldData[i].verified
       /\ \A i \in DOMAIN NewData \ DOMAIN OldData : NewData[i].verified = FALSE
  /\ last_cmd = "verify-upstreams" =>
       /\ DOMAIN NewData = DOMAIN OldData
       /\ \A i \in DOMAIN OldData : NewData[i].verified = OldData[i].verified
C24_Witness ==
  /\ last_cmd = "verify-upstreams"
  /\ ncmd = 2
  /\ \E i \in DOMAIN OldData :
       /\ OldData[i].upstream = NoName /\ NewData[i].upstream # NoName
       /\ ~NewData[i].verified /\ NewData[i].notes[1] = "Stub auto-ajoute par scan"

\* C26: after any sequence of add commands on a registry without duplicates
\* no two entries have the same upstream and no two have the same source, and
\* an add that matches an existing entry leaves the stored registry unchanged.
C26_AddKeepsRegistryUnique ==
  /\ \A i, j \in DOMAIN NewData :
       i # j =>
         /\ NewData[i].upstream # NoName => NewData[i].upstream # NewData[j].upstream
         /\ NewData[i].source # NewData[j].source
  /\ (last_cmd = "add" /\ Len(NewData) = Len(OldData)) => readme_forks = before

\* C27: whenever the subtree add/pull of an entry is about to run, the folders
\* of the entries that were processed earlier in the run hold no uncommitted
\* change: their working-tree content (UPSTREAM.md and UPSTREAM_LICENSE
\* included) is the content of the commit the update branch points at.
C27_EarlierEntriesCommitted ==
  pc = "subtree_action" =>
    \A i \in Handled :
      (i \in DOMAIN entries /\ res[i].st = "ok") =>
        wt[prefix(entries[i])] = HeadTree[prefix(entries[i])]

\* C28: while the fetch and the subtree add/pull of an entry run, the remote
\* they name is sanitize_remote_name(entry.name) and it is bound to the
\* upstream URL of that entry, also when another entry of the registry has a
\* name with the same remote name.
C28_RemoteBoundToOwnUpstream ==
  pc \in {"fetch_remote", "subtree_action"} =>
    /\ remote = sanitize_remote_name(entries[idx].name)
    /\ remotes[remote] = upstream_url(entries[idx])
C28_Witness ==
  /\ pc = "subtree_action"
  /\ idx = 2
  /\ sanitize_remote_name(entries[1].name) = sanitize_remote_name(entries[2].name)
  /\ upstream_url(entries[1]) # upstream_url(entries[2])
  /\ res[1].st = "ok"
  /\ \E k \in Ops({"remote set-url"}) : log[k].idx = 2
  /\ remotes[remote] = upstream_url(entries[2])

\* C29: every run starts its update branch at origin's default branch, whatever
\* a branch of that name held before: right after the checkout the update
\* branch is checked out and equals origin's default branch; until the publish
\* commit it differs from it only under the prefixes this run imported; and
\* every later commit of the run (subtree add/pull, publish commit) moves the
\* update branch only, while it is checked out, a subtree command changing
\* nothing outside its prefix.
C29_BranchStartsAtOrigin ==
  /\ [](Ops({"checkout -B"}) # {} =>
         /\ cur = update_branch
         /\ update_branch = UpdateBranchName(now)
         /\ pc = "load" => branchTree[update_branch] = originTree
         /\ Ops({"commit"}) = {} =>
              \A p \in Prefixes :
                branchTree[update_branch][p] # originTree[p] =>
                  \E i \in DOMAIN res : res[i].act \in {"add", "pull"} /\ prefix(entries[i]) = p)
  /\ [][(pc # "start" /\ branchTree' # branchTree) =>
          /\ Ops({"checkout -B"}) # {} /\ cur = update_branch /\ originTree' = originTree
          /\ \A b \in DOMAIN branchTree : b # update_branch => branchTree'[b] = branchTree[b]
          /\ pc = "subtree_action" =>
               \A p \in Prefixes \ {prefix_path} :
                 branchTree'[update_branch][p] = branchTree[update_branch][p]]_vars
C29_Witness ==
  /\ run = 2
  /\ pc = "git_push"
  /\ update_branch \in start.branches
  /\ update_branch \in DOMAIN pushed
  /\ pushed[update_branch] # originTree
  /\ \E i \in DOMAIN res : res[i].act = "add" /\ res[i].st = "ok"
  /\ \E p \in Prefixes : pushed[update_branch][p] # Blank /\ originTree[p] = Blank

\* the refs pushed for entry i of the forks list
PushRefs(i) == {pushes[k].ref : k \in {n \in DOMAIN pushes : pushes[n].i = i}}
\* the commands perform_sync ran after the merge or rebase of a finished entry
AfterStrategy(r) == SubSeq(r.trail, 7, Len(r.trail))

\* C25: perform_sync handles a failed merge and a failed rebase alike, and
\* after either (or with an unknown strategy) never pushes to the fork's
\* default branch: without create_pr it returns False with no push at all,
\* with create_pr the only push is to the sync branch of the day.
C25_FailedSyncNeverPushesDefault ==
  /\ [](/\ failed =>
            /\ DefaultRef(forks[fork_i]) \notin PushRefs(fork_i)
            /\ PushRefs(fork_i) \subseteq
                 (IF create_pr_of(forks[fork_i]) THEN {SyncBranchName(now)} ELSE {})
        /\ \A i \in DOMAIN results :
             results[i].failed =>
               /\ PushRefs(i) \subseteq (IF results[i].create_pr THEN {SyncBranchName(now)} ELSE {})
               /\ ~results[i].create_pr => results[i].ret = "False"
               /\ results[i].strategy \notin {"merge", "rebase"} => results[i].ret = "False"
        /\ \A i, j \in DOMAIN results :
             (/\ results[i].failed /\ results[j].failed
              /\ {results[i].strategy, results[j].strategy} \subseteq {"merge", "rebase"}
              /\ results[i].create_pr = results[j].create_pr
              /\ Len(AfterStrategy(results[i])) = Len(AfterStrategy(results[j]))
              /\ \A k \in DOMAIN AfterStrategy(results[i]) :
                   AfterStrategy(results[i])[k][2] = AfterStrategy(results[j])[k][2])
             => /\ AfterStrategy(results[i]) = AfterStrategy(results[j])
                /\ results[i].ret = results[j].ret
                /\ PushRefs(i) = PushRefs(j))
  /\ [][(sync_pc = "strategy" /\ failed') =>
          sync_pc' = IF strategy_of(forks[fork_i]) \in {"merge", "rebase"} /\ create_pr_of(forks[fork_i])
                     THEN "checkout_sync" ELSE "return_false"]_vars
C25_Witness ==
  /\ Len(results) = 2
  /\ results[1].strategy = "merge" /\ results[2].strategy = "rebase"
  /\ \A i \in {1, 2} : results[i].failed /\ results[i].create_pr /\ results[i].ret = "True"
  /\ PushRefs(1) = {SyncBranchName(now)}
  /\ PushRefs(2) = {SyncBranchName(now)}
====
